---- MODULE Spec2Model ----
(***************************************************************************)
(* CMD-Pilot: the command safety gate (allow-list, blacklist, risk         *)
(* patterns) and the execution sandbox (CommandContext, execute,           *)
(* terminate_process) of the engine.                                       *)
(*                                                                         *)
(* Commands are sequences of one-character strings, so that Python's       *)
(* substring tests, str.strip/split, shlex.split and re.search are         *)
(* computed on the characters as the code computes them.                   *)
(***************************************************************************)
EXTENDS Integers, Sequences, FiniteSets, TLC

VARIABLES
    cmd,              \* gate: the command text handed to an entry point
    allowed,          \* gate: CommandValidator._allowed_commands
    model_id,         \* gate: CommandEngine.model_id (selects self.config)
    gate,             \* gate: entry point applied to cmd and what it decided
    pc,               \* sandbox: position of every thread
    lock,             \* sandbox: holder of self.lock, or None
    current_process,  \* sandbox: self.current_process (a child, or NoPid)
    proc,             \* sandbox: state of every child process
    sent,             \* sandbox: signals delivered to every child, in order
    cwd,              \* sandbox: working directory of the (one) OS process
    umask,            \* sandbox: umask of the (one) OS process
    tmpdirs,          \* sandbox: temporary directories that exist
    ctx,              \* sandbox: the CommandContext of every thread's call
    loc,              \* sandbox: locals of every thread's call
    result,           \* sandbox: value returned by every thread's last call
    calls             \* sandbox: number of execute/terminate calls started

gateVars == <<cmd, allowed, model_id, gate>>
boxVars  == <<pc, lock, current_process, proc, sent, cwd, umask, tmpdirs,
              ctx, loc, result, calls>>
vars     == <<cmd, allowed, model_id, gate, pc, lock, current_process, proc,
              sent, cwd, umask, tmpdirs, ctx, loc, result, calls>>

None == "None"

(***************************************************************************)
(* Characters                                                              *)
(***************************************************************************)
Lower == {"a","b","c","d","e","f","g","h","i","j","k","l","m",
          "n","o","p","q","r","s","t","u","v","w","x","y","z"}
Upper == {"A","B","C","D","E","F","G","H","I","J","K","L","M",
          "N","O","P","Q","R","S","T","U","V","W","X","Y","Z"}
Digit == {"0","1","2","3","4","5","6","7","8","9"}
Newline == "\n"
\* str.isspace / the regex class \s, restricted to the characters used
Space == {" ", "\t", Newline}
\* the grave accent character (the lexer of TLA+ does not accept it in a
\* string, so it is written out)
Backtick == "BACKTICK"
Punct == {";","|","&","$","(",")","{","}",Backtick,".","/","-","_",":","=",
          "@",">","#","'","\"" }
Char   == Lower \cup Upper \cup Digit \cup Space \cup Punct
\* the regex class \w
WordCh == Lower \cup Upper \cup Digit \cup {"_"}
\* the regex '.' (no DOTALL): anything but a newline
Dot == Char \ {Newline}
NonSpace == Char \ Space

\* str.lower on one character
ToLower(c) ==
    CASE c = "A" -> "a" [] c = "B" -> "b" [] c = "C" -> "c" [] c = "D" -> "d"
      [] c = "E" -> "e" [] c = "F" -> "f" [] c = "G" -> "g" [] c = "H" -> "h"
      [] c = "I" -> "i" [] c = "J" -> "j" [] c = "K" -> "k" [] c = "L" -> "l"
      [] c = "M" -> "m" [] c = "N" -> "n" [] c = "O" -> "o" [] c = "P" -> "p"
      [] c = "Q" -> "q" [] c = "R" -> "r" [] c = "S" -> "s" [] c = "T" -> "t"
      [] c = "U" -> "u" [] c = "V" -> "v" [] c = "W" -> "w" [] c = "X" -> "x"
      [] c = "Y" -> "y" [] c = "Z" -> "z" [] OTHER -> c

\* str.upper on one character
ToUpper(c) ==
    IF \E u \in Upper : ToLower(u) = c
    THEN CHOOSE u \in Upper : ToLower(u) = c
    ELSE c

(***************************************************************************)
(* Python string primitives                                                *)
(***************************************************************************)
\* lit in s
Contains(s, lit) ==
    \E i \in 1..(Len(s) - Len(lit) + 1) :
        \A n \in 1..Len(lit) : s[i + n - 1] = lit[n]

\* str.strip()
RECURSIVE LStrip(_)
LStrip(s) == IF s # <<>> /\ Head(s) \in Space THEN LStrip(Tail(s)) ELSE s

RECURSIVE RStrip(_)
RStrip(s) ==
    IF s # <<>> /\ s[Len(s)] \in Space THEN RStrip(SubSeq(s, 1, Len(s) - 1))
    ELSE s

Strip(s) == RStrip(LStrip(s))

\* ' '.join(s.split())
RECURSIVE JoinSplit(_)
JoinSplit(s) ==
    LET t == LStrip(s) IN
    IF t = <<>> THEN <<>>
    ELSE LET n == CHOOSE k \in 1..Len(t) :
                      /\ \A j \in 1..k : t[j] \notin Space
                      /\ (k = Len(t) \/ t[k + 1] \in Space)
             rest == JoinSplit(SubSeq(t, n + 1, Len(t)))
         IN  IF rest = <<>> THEN SubSeq(t, 1, n)
             ELSE SubSeq(t, 1, n) \o <<" ">> \o rest

(***************************************************************************)
(* re.search: a pattern is a tree of                                       *)
(*   lit  - a literal string                                               *)
(*   rep  - a character class repeated min..max times (max = -1: no limit) *)
(*   wb   - the word boundary \b                                           *)
(*   eos  - $ (end of the string, or just before its final newline)        *)
(*   seq  - concatenation          alt - alternation                       *)
(* MatchEnds is the set of positions at which a match that starts at       *)
(* position i can end; re.search succeeds iff some start has an end.       *)
(***************************************************************************)
Lit(str)            == [k |-> "lit", s |-> str]
Rep(cls, lo, hi)    == [k |-> "rep", cls |-> cls, min |-> lo, max |-> hi]
One(cls)            == Rep(cls, 1, 1)
Star(cls)           == Rep(cls, 0, -1)
Plus(cls)           == Rep(cls, 1, -1)
WB                  == [k |-> "wb"]
EOS                 == [k |-> "eos"]
Cat(parts)          == [k |-> "seq", parts |-> parts]
Alt(alts)           == [k |-> "alt", alts |-> alts]

\* membership of a character in a class, with or without re.IGNORECASE
CharIn(c, cls, ic) ==
    IF ic THEN \E x \in cls : ToLower(x) = ToLower(c) ELSE c \in cls

RECURSIVE MatchEnds(_, _, _, _)
MatchEnds(re, s, i, ic) ==
    CASE re.k = "lit" ->
           IF /\ i + Len(re.s) - 1 <= Len(s)
              /\ \A n \in 1..Len(re.s) : CharIn(s[i + n - 1], {re.s[n]}, ic)
           THEN {i + Len(re.s)} ELSE {}
      [] re.k = "rep" ->
           LET top == IF re.max = -1 \/ i + re.max > Len(s) + 1
                      THEN Len(s) + 1 ELSE i + re.max
           IN  {j \in (i + re.min)..top :
                    \A n \in i..(j - 1) : CharIn(s[n], re.cls, ic)}
      [] re.k = "wb" ->
           LET before == i > 1 /\ s[i - 1] \in WordCh
               after  == i <= Len(s) /\ s[i] \in WordCh
           IN  IF before # after THEN {i} ELSE {}
      [] re.k = "eos" ->
           IF i = Len(s) + 1 \/ (i = Len(s) /\ s[i] = Newline)
           THEN {i} ELSE {}
      [] re.k = "seq" ->
           IF re.parts = <<>> THEN {i}
           ELSE UNION {MatchEnds(Cat(Tail(re.parts)), s, j, ic) :
                          j \in MatchEnds(Head(re.parts), s, i, ic)}
      [] re.k = "alt" ->
           UNION {MatchEnds(re.alts[n], s, i, ic) : n \in DOMAIN re.alts}

Search(re, s, ic) == \E i \in 1..(Len(s) + 1) : MatchEnds(re, s, i, ic) # {}

(***************************************************************************)
(* shlex.split(command): POSIX mode, whitespace_split, no comments.        *)
(* The result is [ok, toks]; ok = FALSE is the ValueError "No closing      *)
(* quotation".  st is the lexer state: " " (between tokens), "a" (in a     *)
(* word) or the quote character being read.  The escape character \ is     *)
(* not in Char.                                                            *)
(***************************************************************************)
Quotes == {"'", "\""}

\* the first position from i on whose character is in set (or is not in
\* it, for inside = FALSE); Len(s) + 1 if there is none
FirstAt(s, i, set, inside) ==
    LET js == {j \in i..Len(s) : (s[j] \in set) = inside}
    IN  IF js = {} THEN Len(s) + 1
        ELSE CHOOSE j \in js : \A k \in js : j <= k

\* the tokenizer reads s from position i in state st (" ": between tokens,
\* "a": in a token, a quote: inside that quote); a run of characters that
\* leaves the state alone is read at once
RECURSIVE ShlexRun(_, _, _, _, _)
ShlexRun(s, i, st, tok, toks) ==
    IF i > Len(s) THEN
        IF st \in Quotes THEN [ok |-> FALSE, toks |-> <<>>]
        ELSE IF st = "a" THEN [ok |-> TRUE, toks |-> Append(toks, tok)]
        ELSE [ok |-> TRUE, toks |-> toks]
    ELSE IF st = " " THEN
        LET j == FirstAt(s, i, Space, FALSE) IN
        IF j > Len(s) THEN ShlexRun(s, j, " ", <<>>, toks)
        ELSE IF s[j] \in Quotes THEN ShlexRun(s, j + 1, s[j], <<>>, toks)
        ELSE ShlexRun(s, j + 1, "a", <<s[j]>>, toks)
    ELSE IF st = "a" THEN
        LET j  == FirstAt(s, i, Space \cup Quotes, TRUE)
            t2 == tok \o SubSeq(s, i, j - 1)
        IN  IF j > Len(s) THEN ShlexRun(s, j, "a", t2, toks)
            ELSE IF s[j] \in Space
                 THEN ShlexRun(s, j + 1, " ", <<>>, Append(toks, t2))
            ELSE ShlexRun(s, j + 1, s[j], t2, toks)
    ELSE
        LET j  == FirstAt(s, i, {st}, TRUE)
            t2 == tok \o SubSeq(s, i, j - 1)
        IN  IF j > Len(s) THEN ShlexRun(s, j, st, t2, toks)
            ELSE ShlexRun(s, j + 1, "a", t2, toks)

ShlexSplit(s) == ShlexRun(s, 1, " ", <<>>, <<>>)

(***************************************************************************)
(* cmd_pilot/config.py                                                     *)
(***************************************************************************)
ALLOWED_COMMANDS ==
    { <<"l","s">>, <<"c","d">>, <<"p","w","d">>, <<"c","a","t">>,
      <<"g","r","e","p">>, <<"f","i","n","d">>, <<"e","c","h","o">> }

\* the keys of MODEL_CONFIGS[model_id]; neither entry has "max_risk_level"
MODEL_CONFIGS ==
    [ moonshot |-> [api_type |-> "openai"],
      spark    |-> [api_type |-> "spark"] ]

\* DEFAULT_SETTINGS of config.py
DEFAULT_SETTINGS == [show_raw_output |-> FALSE, max_risk_level |-> "medium"]

(***************************************************************************)
(* cmd_pilot/security.py: CommandValidator                                 *)
(***************************************************************************)
\* compiled without flags: matching is case-sensitive
BLACKLISTED_PATTERNS == <<
    \* [&|;]\s*[&|;]
    Cat(<<One({"&","|",";"}), Star(Space), One({"&","|",";"})>>),
    \* [BACKTICK$]\s*\(.*\)|\$\{.*\}
    Alt(<<Cat(<<One({Backtick,"$"}), Star(Space), Lit(<<"(">>), Star(Dot),
                Lit(<<")">>)>>),
          Cat(<<Lit(<<"$","{">>), Star(Dot), Lit(<<"}">>)>>)>>),
    \* \|\s*[a-z]
    Cat(<<Lit(<<"|">>), Star(Space), One(Lower)>>),
    \* (rm|del)\s+-[rf]|[sq]
    Alt(<<Cat(<<Alt(<<Lit(<<"r","m">>), Lit(<<"d","e","l">>)>>), Plus(Space),
                Lit(<<"-">>), One({"r","f"})>>),
          One({"s","q"})>>),
    \* chmod\s+[0-7]{3,4}
    Cat(<<Lit(<<"c","h","m","o","d">>), Plus(Space),
          Rep({"0","1","2","3","4","5","6","7"}, 3, 4)>>),
    \* (wget|curl)\s+https?://
    Cat(<<Alt(<<Lit(<<"w","g","e","t">>), Lit(<<"c","u","r","l">>)>>),
          Plus(Space), Lit(<<"h","t","t","p">>), Rep({"s"}, 0, 1),
          Lit(<<":","/","/">>)>>),
    \* (nc|ncat|netcat)\s+-[a-z]
    Cat(<<Alt(<<Lit(<<"n","c">>), Lit(<<"n","c","a","t">>),
                Lit(<<"n","e","t","c","a","t">>)>>),
          Plus(Space), Lit(<<"-">>), One(Lower)>>),
    \* (python|perl|ruby|bash)\s+-[c]
    Cat(<<Alt(<<Lit(<<"p","y","t","h","o","n">>), Lit(<<"p","e","r","l">>),
                Lit(<<"r","u","b","y">>), Lit(<<"b","a","s","h">>)>>),
          Plus(Space), Lit(<<"-">>), One({"c"})>>),
    \* base64\s+-d
    Cat(<<Lit(<<"b","a","s","e","6","4">>), Plus(Space), Lit(<<"-","d">>)>>),
    \* (\.\/|\.\.\/|\/etc\/|\/tmp\/)[^\s]*
    Cat(<<Alt(<<Lit(<<".","/">>), Lit(<<".",".","/">>),
                Lit(<<"/","e","t","c","/">>), Lit(<<"/","t","m","p","/">>)>>),
          Star(NonSpace)>>),
    \* (ssh|scp|sftp)\s+[^\s]+@[^\s]+
    Cat(<<Alt(<<Lit(<<"s","s","h">>), Lit(<<"s","c","p">>),
                Lit(<<"s","f","t","p">>)>>),
          Plus(Space), Plus(NonSpace), Lit(<<"@">>), Plus(NonSpace)>>) >>

\* any(p.search(command) for p in self._compiled_patterns)
AnyBlacklisted(command) ==
    \E n \in DOMAIN BLACKLISTED_PATTERNS :
        Search(BLACKLISTED_PATTERNS[n], command, FALSE)

\* set(parsed_command) & dangerous_ops is empty
CheckFilesystemAccess(parsed) ==
    LET dangerous_ops == { <<"r","m">>, <<"d","e","l">>, <<"m","v">>,
                           <<"c","h","m","o","d">>, <<"c","h","o","w","n">> }
    IN  {parsed[n] : n \in DOMAIN parsed} \cap dangerous_ops = {}

\* CommandValidator.is_safe(command) of a validator built with
\* allowed_commands = allow
IsSafe(command, allow) ==
    LET c  == Strip(command)
        sp == ShlexSplit(c)
    IN  IF c = <<>> THEN FALSE
        ELSE IF Contains(c, <<".",".","/">>) \/ Contains(c, <<"/",".","/">>)
            THEN FALSE
        ELSE IF Contains(c, <<"$","(">>) \/ Contains(c, <<"$","{">>)
            THEN FALSE
        ELSE IF ~sp.ok THEN FALSE
        ELSE /\ sp.toks[1] \in allow
             /\ ~AnyBlacklisted(c)
             /\ CheckFilesystemAccess(sp.toks)

(***************************************************************************)
(* cmd_pilot/utils/security.py: CommandValidator                           *)
(***************************************************************************)
UTILS_PRIVILEGE_PATTERNS ==
    [ privilege_escalation |-> <<
        \* \bsudo\s+\w+
        Cat(<<WB, Lit(<<"s","u","d","o">>), Plus(Space), Plus(WordCh)>>),
        \* \bpkexec\s+\w+
        Cat(<<WB, Lit(<<"p","k","e","x","e","c">>), Plus(Space),
              Plus(WordCh)>>),
        \* \bdoas\s+\w+
        Cat(<<WB, Lit(<<"d","o","a","s">>), Plus(Space), Plus(WordCh)>>),
        \* \bStart-Process\s+.*-Verb\s+RunAs
        Cat(<<WB, Lit(<<"S","t","a","r","t","-","P","r","o","c","e","s","s">>),
              Plus(Space), Star(Dot), Lit(<<"-","V","e","r","b">>),
              Plus(Space), Lit(<<"R","u","n","A","s">>)>>),
        \* [;|&amp;]\s*[;|&amp;]
        Cat(<<One({";","|","&","a","m","p"}), Star(Space),
              One({";","|","&","a","m","p"})>>) >>,
      data_destruction |-> <<
        \* \b(rm|del)\s+-[rf]
        Cat(<<WB, Alt(<<Lit(<<"r","m">>), Lit(<<"d","e","l">>)>>),
              Plus(Space), Lit(<<"-">>), One({"r","f"})>>),
        \* \bformat\s+\w+:
        Cat(<<WB, Lit(<<"f","o","r","m","a","t">>), Plus(Space),
              Plus(WordCh), Lit(<<":">>)>>),
        \* \bdd\s+if=.*of=
        Cat(<<WB, Lit(<<"d","d">>), Plus(Space), Lit(<<"i","f","=">>),
              Star(Dot), Lit(<<"o","f","=">>)>>),
        \* \bshred\s+-n
        Cat(<<WB, Lit(<<"s","h","r","e","d">>), Plus(Space),
              Lit(<<"-","n">>)>>),
        \* \bchmod\s+0{3,4}\s
        Cat(<<WB, Lit(<<"c","h","m","o","d">>), Plus(Space),
              Rep({"0"}, 3, 4), One(Space)>>) >>,
      network_operations |-> <<
        \* \b(curl|wget)\s+https?://
        Cat(<<WB, Alt(<<Lit(<<"c","u","r","l">>), Lit(<<"w","g","e","t">>)>>),
              Plus(Space), Lit(<<"h","t","t","p">>), Rep({"s"}, 0, 1),
              Lit(<<":","/","/">>)>>),
        \* \bssh\s+-o\s+StrictHostKeyChecking=no
        Cat(<<WB, Lit(<<"s","s","h">>), Plus(Space), Lit(<<"-","o">>),
              Plus(Space),
              Lit(<<"S","t","r","i","c","t","H","o","s","t","K","e","y",
                    "C","h","e","c","k","i","n","g","=","n","o">>)>>),
        \* \bmount\s+.*-o\s+rw
        Cat(<<WB, Lit(<<"m","o","u","n","t">>), Plus(Space), Star(Dot),
              Lit(<<"-","o">>), Plus(Space), Lit(<<"r","w">>)>>) >> ]

\* the (level, category) pairs assess_risk / analyze_risk iterate over
LevelCategory ==
    [ critical |-> "privilege_escalation",
      high     |-> "data_destruction",
      medium   |-> "network_operations" ]

\* the loop left at the first level that has a match: only the highest
\* level found is in the dict
RiskDictFirstLevel(table, command) ==
    LET matched(level) ==
            {n \in DOMAIN table[LevelCategory[level]] :
                Search(table[LevelCategory[level]][n], command, TRUE)}
        found == {l \in DOMAIN LevelCategory : matched(l) # {}}
        first == IF "critical" \in found THEN {"critical"}
                 ELSE IF "high" \in found THEN {"high"}
                 ELSE found
    IN  [level \in first |-> matched(level)]

\* the loop of assess_risk / analyze_risk over a pattern table: a dict whose
\* keys are the levels with a match, each with the matched patterns
RiskDict(table, command) ==
    LET matched(level) ==
            {n \in DOMAIN table[LevelCategory[level]] :
                Search(table[LevelCategory[level]][n], command, TRUE)}
    IN  [level \in {l \in DOMAIN LevelCategory : matched(l) # {}}
            |-> matched(level)]

\* CommandValidator.assess_risk(command)
UtilsAssessRisk(command) == RiskDict(UTILS_PRIVILEGE_PATTERNS, command)

\* position of the '#' from which re.sub(r'#.*$', '', command) deletes,
\* or 0 when the pattern does not match ($ without re.MULTILINE)
CommentStart(command) ==
    LET hits == {i \in 1..Len(command) :
                    MatchEnds(Cat(<<Lit(<<"#">>), Star(Dot), EOS>>),
                              command, i, FALSE) # {}}
    IN  IF hits = {} THEN 0
        ELSE CHOOSE i \in hits : \A j \in hits : i <= j

\* CommandValidator.sanitize_command(command)
UtilsSanitizeCommand(command) ==
    IF command = <<>> THEN <<>>
    ELSE LET i == CommentStart(command)
             \* the match ends at the end of the string or before its
             \* final newline, which re.sub leaves in place
             cleaned ==
                 IF i = 0 THEN command
                 ELSE SubSeq(command, 1, i - 1) \o
                      (IF command[Len(command)] = Newline
                       THEN <<Newline>> ELSE <<>>)
         IN  JoinSplit(cleaned)

\* CommandValidator.is_safe(command); this class sets neither
\* _allowed_commands nor _compiled_patterns, they are the ones
\* cmd_pilot/security.py's __init__ builds
UtilsIsSafe(command, allow) ==
    LET c  == Strip(command)
        sp == ShlexSplit(c)
    IN  IF c = <<>> THEN FALSE
        ELSE IF Search(One({";","&","|"}), c, FALSE) THEN FALSE
        ELSE IF ~sp.ok THEN FALSE
        ELSE IF sp.toks = <<>> THEN FALSE
        ELSE sp.toks[1] \in allow /\ ~AnyBlacklisted(c)

(***************************************************************************)
(* cmd_pilot/command_engine.py: CommandEngine                              *)
(***************************************************************************)
Levels == {"low", "medium", "high", "critical"}

\* risk_order in async_execute
risk_order == [critical |-> 3, high |-> 2, medium |-> 1, low |-> 0]

\* CommandEngine._get_highest_risk_level(risk_assessment)
GetHighestRiskLevel(risk_assessment) ==
    IF "critical" \in DOMAIN risk_assessment THEN "critical"
    ELSE IF "high" \in DOMAIN risk_assessment THEN "high"
    ELSE IF "medium" \in DOMAIN risk_assessment THEN "medium"
    ELSE "low"

\* risk_order.get(self.config.get('max_risk_level', 'medium'), 1)
MaxRiskOrder(config) ==
    LET name == IF "max_risk_level" \in DOMAIN config
                THEN config.max_risk_level ELSE "medium"
    IN  IF name \in DOMAIN risk_order THEN risk_order[name] ELSE 1

\* CommandEngine.async_execute, from the generated command text on: the
\* name of the exception it raises, or "executed" when it reaches
\* _execute_command inside a CommandContext.  command is the text line 117
\* hands to sanitize_command; the code reads it from command_data under
\* the key 'command', where async_generate_command stores it under
\* 'sanitized'.
AsyncExecute(command, allow, config) ==
    LET sanitized     == UtilsSanitizeCommand(command)
        risk          == UtilsAssessRisk(sanitized)
        highest_level == GetHighestRiskLevel(risk)
    IN  IF /\ ~UtilsIsSafe(sanitized, allow)
           /\ risk_order[highest_level] > MaxRiskOrder(config)
        THEN "SecurityError"
        ELSE "executed"

(***************************************************************************)
(* main.py: the engine's gate in execute                                   *)
(***************************************************************************)
PRIVILEGE_PATTERNS ==
    [ privilege_escalation |-> <<
        \* sudo\s+\w+
        Cat(<<Lit(<<"s","u","d","o">>), Plus(Space), Plus(WordCh)>>),
        \* pkexec\s+\w+
        Cat(<<Lit(<<"p","k","e","x","e","c">>), Plus(Space), Plus(WordCh)>>),
        \* doas\s+\w+
        Cat(<<Lit(<<"d","o","a","s">>), Plus(Space), Plus(WordCh)>>),
        \* Start-Process\s+.*-Verb\s+RunAs
        Cat(<<Lit(<<"S","t","a","r","t","-","P","r","o","c","e","s","s">>),
              Plus(Space), Star(Dot), Lit(<<"-","V","e","r","b">>),
              Plus(Space), Lit(<<"R","u","n","A","s">>)>>) >>,
      data_destruction |-> <<
        \* rm\s+-(rf|fr)
        Cat(<<Lit(<<"r","m">>), Plus(Space), Lit(<<"-">>),
              Alt(<<Lit(<<"r","f">>), Lit(<<"f","r">>)>>)>>),
        \* format\s+\w+:
        Cat(<<Lit(<<"f","o","r","m","a","t">>), Plus(Space), Plus(WordCh),
              Lit(<<":">>)>>),
        \* dd\s+if=.*of=
        Cat(<<Lit(<<"d","d">>), Plus(Space), Lit(<<"i","f","=">>), Star(Dot),
              Lit(<<"o","f","=">>)>>),
        \* shred\s+-n
        Cat(<<Lit(<<"s","h","r","e","d">>), Plus(Space), Lit(<<"-","n">>)>>),
        \* chmod\s+0{3,4}\s
        Cat(<<Lit(<<"c","h","m","o","d">>), Plus(Space), Rep({"0"}, 3, 4),
              One(Space)>>) >>,
      network_operations |-> <<
        \* curl\s+-F\s+@
        Cat(<<Lit(<<"c","u","r","l">>), Plus(Space), Lit(<<"-","F">>),
              Plus(Space), Lit(<<"@">>)>>),
        \* wget\s+--post-file
        Cat(<<Lit(<<"w","g","e","t">>), Plus(Space),
              Lit(<<"-","-","p","o","s","t","-","f","i","l","e">>)>>),
        \* ssh\s+-o\s+StrictHostKeyChecking=no
        Cat(<<Lit(<<"s","s","h">>), Plus(Space), Lit(<<"-","o">>),
              Plus(Space),
              Lit(<<"S","t","r","i","c","t","H","o","s","t","K","e","y",
                    "C","h","e","c","k","i","n","g","=","n","o">>)>>),
        \* mount\s+.*-o\s+rw
        Cat(<<Lit(<<"m","o","u","n","t">>), Plus(Space), Star(Dot),
              Lit(<<"-","o">>), Plus(Space), Lit(<<"r","w">>)>>) >> ]

\* analyze_risk(command)
AnalyzeRisk(command) == RiskDict(PRIVILEGE_PATTERNS, command)

\* the prompt left out: every command counts as confirmed
ConfirmAlways(command, answer) == TRUE

\* confirm_risky_command(command); answer is what the user types at the
\* prompt (TRUE for 'y')
ConfirmRiskyCommand(command, answer) ==
    IF "critical" \in DOMAIN AnalyzeRisk(command) THEN answer ELSE TRUE

\* execute(command) up to the try statement: the early return taken, the
\* exception shlex.split(command)[0] raises, or "sandbox" when the call
\* goes on to create the CommandContext and spawn
ExecuteGate(command, answer) ==
    LET sp == ShlexSplit(command) IN
    IF command = <<>> THEN "empty"
    ELSE IF ~sp.ok THEN "ValueError"
    ELSE IF sp.toks = <<>> THEN "IndexError"
    ELSE IF sp.toks[1] \notin ALLOWED_COMMANDS THEN "unauthorized"
    ELSE IF ~ConfirmRiskyCommand(command, answer) THEN "user_cancel"
    ELSE "sandbox"

(***************************************************************************)
(* The execution sandbox: execute and terminate_process of the engine in   *)
(* main.py, with CommandContext of cmd_pilot/command_engine.py.            *)
(*                                                                         *)
(* Workers call execute, the stopper calls terminate_process (the UI's     *)
(* stop_process).  A step is one access to what the threads share (the     *)
(* lock, the handle, the children, the working directory, the umask); the  *)
(* threads interleave between steps.  A with self.lock block that only     *)
(* assigns the handle is one step that waits for the lock to be free.      *)
(***************************************************************************)
Workers  == {"w1", "w2"}
\* a call is run by the idle worker of lowest number (which thread runs a
\* call makes no difference to the engine)
WorkerNo == [w1 |-> 1, w2 |-> 2]
Stoppers == {"ui"}
Threads  == Workers \cup Stoppers

\* execute calls and terminate_process calls started in one run
MaxCalls == 2
MaxStops == 1

\* a child is named by the worker that spawned it and the number of that
\* worker's call; the two directories of a call likewise
Pids == Workers \X (1..MaxCalls)

\* the commands handed to execute in the sandbox model: empty, blank,
\* unbalanced quote, not allow-listed, allow-listed, allow-listed with a
\* critical finding
ExecCommands ==
    { <<>>, <<" ">>, <<"l","s"," ","'">>, <<"i","d">>, <<"l","s">>,
      <<"e","c","h","o"," ","s","u","d","o"," ","x">> }

\* self.current_process = None: no child is tracked
NoPid == <<>>
\* the directory the program runs in before any call
OrigCwd == <<>>
OrigUmask   == "0o022"
StrictUmask == "0o077"

NoProc   == [st |-> "none", how |-> None]
NoCtx    == [cwd |-> OrigCwd, umask |-> None]
NoResult == [kind |-> "none", code |-> None]
NoLoc    == [h |-> NoPid, exc |-> None, ret |-> NoResult]

\* Popen.returncode: set once the child has been waited for
ExitCode == [exited |-> "status", sigkill |-> "-9", sigterm |-> "-15"]
Returncode(p) == IF proc[p].st = "reaped" THEN ExitCode[proc[p].how] ELSE None

\* the child of thread t's current call, and the two mkdtemp directories
MyPid(t) == <<t, calls[t]>>
MyDirs(t) == {<<t, calls[t], 1>>, <<t, calls[t], 2>>}

\* execute calls started so far
Started == Cardinality({c \in Pids : c[2] <= calls[c[1]]})

\* Popen.send_signal(sig) by thread t: poll() first, which reaps a child
\* that has exited; a signal goes out only to a child still running.
\* SIGKILL cannot be handled; SIGTERM may be handled by the child.
SendSignal(p, sig, t, survives) ==
    IF proc[p].st = "running" THEN
        /\ sent' = [sent EXCEPT ![p] = Append(@, [sig |-> sig, by |-> t])]
        /\ proc' = IF sig = "SIGTERM" /\ survives THEN proc
                   ELSE [proc EXCEPT ![p] =
                            [st |-> "zombie",
                             how |-> IF sig = "SIGKILL" THEN "sigkill"
                                     ELSE "sigterm"]]
    ELSE
        /\ sent' = sent
        /\ proc' = IF proc[p].st = "zombie"
                   THEN [proc EXCEPT ![p].st = "reaped"] ELSE proc

\* execute, lines 146-157: the gate; an early return or an exception ends
\* the call at once
Call(t) ==
    /\ t \in Workers
    /\ pc[t] = "idle"
    /\ \A u \in Workers : pc[u] = "idle" => WorkerNo[t] <= WorkerNo[u]
    /\ Started < MaxCalls
    /\ \E c \in ExecCommands, answer \in BOOLEAN :
          LET g == ExecuteGate(c, answer) IN
          /\ pc' = [pc EXCEPT ![t] = IF g = "sandbox" THEN "ctx_init"
                                     ELSE "idle"]
          /\ result' = [result EXCEPT ![t] =
                           IF g = "sandbox" THEN NoResult
                           ELSE [kind |-> g, code |-> "-1"]]
    /\ calls' = [calls EXCEPT ![t] = @ + 1]
    /\ loc' = [loc EXCEPT ![t] = NoLoc]
    /\ ctx' = [ctx EXCEPT ![t] = NoCtx]
    /\ UNCHANGED <<lock, current_process, proc, sent, cwd, umask, tmpdirs>>
    /\ UNCHANGED gateVars

\* CommandContext.__init__, lines 15-17: self.cwd = os.getcwd() and
\* self.umask = os.umask(0o077)
CtxInit(t) ==
    /\ pc[t] = "ctx_init"
    /\ ctx' = [ctx EXCEPT ![t] = [cwd |-> cwd, umask |-> umask]]
    /\ umask' = StrictUmask
    /\ pc' = [pc EXCEPT ![t] = "ctx_umask_restore"]
    /\ UNCHANGED <<lock, current_process, proc, sent, cwd, tmpdirs, loc,
                   result, calls>>
    /\ UNCHANGED gateVars

\* CommandContext.__init__, line 18: os.umask(self.umask)
CtxUmaskRestore(t) ==
    /\ pc[t] = "ctx_umask_restore"
    /\ umask' = ctx[t].umask
    /\ pc' = [pc EXCEPT ![t] = "enter"]
    /\ UNCHANGED <<lock, current_process, proc, sent, cwd, tmpdirs, ctx, loc,
                   result, calls>>
    /\ UNCHANGED gateVars

\* CommandContext.__enter__, line 21: os.chdir(tempfile.mkdtemp()).  The
\* context is entered twice in a row, by "with CommandContext() as ctx" and
\* by "with ctx" (main.py lines 160-161): two directories are made and the
\* process is left in the second
CtxEnter(t) ==
    /\ pc[t] = "enter"
    /\ tmpdirs' = tmpdirs \cup MyDirs(t)
    /\ cwd' = <<t, calls[t], 2>>
    /\ pc' = [pc EXCEPT ![t] = "popen"]
    /\ UNCHANGED <<lock, current_process, proc, sent, umask, ctx, loc, result,
                   calls>>
    /\ UNCHANGED gateVars

\* lines 162-172: with self.lock: self.current_process = Popen(...).  The
\* statement waits for the lock and holds it for the assignment only.
\* Popen may raise (spawn failure), which leaves the handle as it was.
Popen(t) ==
    /\ pc[t] = "popen"
    /\ lock = None
    /\ \E spawned \in BOOLEAN :
          IF spawned THEN
              /\ proc' = [proc EXCEPT ![MyPid(t)] = [st |-> "running",
                                                     how |-> None]]
              /\ current_process' = MyPid(t)
              /\ loc' = loc
              /\ pc' = [pc EXCEPT ![t] = "communicate"]
          ELSE
              /\ loc' = [loc EXCEPT ![t].exc = "Exception"]
              /\ pc' = [pc EXCEPT ![t] = "exit"]
              /\ UNCHANGED <<proc, current_process>>
    /\ UNCHANGED <<lock, sent, cwd, umask, tmpdirs, ctx, result, calls>>
    /\ UNCHANGED gateVars

\* line 173: the read of self.current_process, outside the lock; None has
\* no communicate, the AttributeError is caught as Exception
CommunicateRead(t) ==
    /\ pc[t] = "communicate"
    /\ IF current_process = NoPid
       THEN /\ loc' = [loc EXCEPT ![t].exc = "Exception"]
            /\ pc' = [pc EXCEPT ![t] = "exit"]
       ELSE /\ loc' = [loc EXCEPT ![t].h = current_process]
            /\ pc' = [pc EXCEPT ![t] = "wait"]
    /\ UNCHANGED <<lock, current_process, proc, sent, cwd, umask, tmpdirs,
                   ctx, result, calls>>
    /\ UNCHANGED gateVars

\* what communicate hands back (stdout, stderr): stdout only, or both
Outputs == {"stdout", "stdout+stderr"}

\* communicate() called with no timeout: the call waits until the child is
\* gone, however long that takes
WaitForever(t) ==
    /\ pc[t] = "wait"
    /\ LET h == loc[t].h IN
       \/ /\ proc[h].st = "zombie"
          /\ proc' = [proc EXCEPT ![h].st = "reaped"]
          /\ loc' = loc
          /\ pc' = [pc EXCEPT ![t] = "returncode"]
       \/ /\ proc[h].st = "reaped"
          /\ proc' = proc
          /\ \E fails \in BOOLEAN :
                IF fails
                THEN /\ loc' = [loc EXCEPT ![t].exc = "Exception"]
                     /\ pc' = [pc EXCEPT ![t] = "exit"]
                ELSE /\ loc' = loc
                     /\ pc' = [pc EXCEPT ![t] = "returncode"]
    /\ UNCHANGED <<lock, current_process, sent, cwd, umask, tmpdirs, ctx,
                   result, calls>>
    /\ UNCHANGED gateVars

\* line 173: communicate(timeout=60) on the handle read.  It returns once
\* the child has exited and its pipes are at end of file; it raises
\* TimeoutExpired while the child runs or descendants hold the pipes.  A
\* child another thread's communicate has already reaped was read by two
\* threads at once: this call returns or fails on the closed pipes.
Wait(t) ==
    /\ pc[t] = "wait"
    /\ LET h == loc[t].h IN
       \/ /\ proc[h].st = "zombie"
          /\ proc' = [proc EXCEPT ![h].st = "reaped"]
          /\ loc' = loc
          /\ pc' = [pc EXCEPT ![t] = "returncode"]
       \/ /\ proc[h].st = "reaped"
          /\ proc' = proc
          /\ \E fails \in BOOLEAN :
                IF fails
                THEN /\ loc' = [loc EXCEPT ![t].exc = "Exception"]
                     /\ pc' = [pc EXCEPT ![t] = "exit"]
                ELSE /\ loc' = loc
                     /\ pc' = [pc EXCEPT ![t] = "returncode"]
       \/ /\ proc[h].st \in {"running", "zombie"}
          /\ proc' = proc
          /\ loc' = [loc EXCEPT ![t].exc = "TimeoutExpired"]
          /\ pc' = [pc EXCEPT ![t] = "exit"]
    /\ UNCHANGED <<lock, current_process, sent, cwd, umask, tmpdirs, ctx,
                   result, calls>>
    /\ UNCHANGED gateVars

\* lines 174-178: return_code = self.current_process.returncode (a second
\* read outside the lock), then of the output communicate handed back
\* stderr is returned if it is not empty and stdout otherwise
ReturnCode(t) ==
    /\ pc[t] = "returncode"
    /\ IF current_process = NoPid
       THEN loc' = [loc EXCEPT ![t].exc = "Exception"]
       ELSE \E out \in Outputs :
              loc' = [loc EXCEPT ![t].ret =
                        [kind |-> IF out = "stdout+stderr" THEN "stderr"
                                  ELSE "stdout",
                         code |-> Returncode(current_process)]]
    /\ pc' = [pc EXCEPT ![t] = "exit"]
    /\ UNCHANGED <<lock, current_process, proc, sent, cwd, umask, tmpdirs,
                   ctx, result, calls>>
    /\ UNCHANGED gateVars

\* CommandContext.__exit__, line 25: os.chdir(self.cwd), run for the inner
\* and for the outer with statement in a row.  Control is then in the
\* except clause that matches (lines 179-183), or in finally.
CtxExit(t) ==
    /\ pc[t] = "exit"
    /\ cwd' = ctx[t].cwd
    /\ pc' = [pc EXCEPT ![t] = IF loc[t].exc = "TimeoutExpired" THEN "t_kill"
                               ELSE "finally"]
    /\ loc' = [loc EXCEPT ![t].ret =
                 IF loc[t].exc = "Exception"
                 THEN [kind |-> "error", code |-> "-1"] ELSE @]
    /\ UNCHANGED <<lock, current_process, proc, sent, umask, tmpdirs, ctx,
                   result, calls>>
    /\ UNCHANGED gateVars

\* ModernUI.stop_process: self.engine.terminate_process()
Stop(t) ==
    /\ t \in Stoppers
    /\ pc[t] = "idle"
    /\ calls[t] < MaxStops
    /\ calls' = [calls EXCEPT ![t] = @ + 1]
    /\ pc' = [pc EXCEPT ![t] = "t_kill"]
    /\ UNCHANGED <<lock, current_process, proc, sent, cwd, umask, tmpdirs,
                   ctx, loc, result>>
    /\ UNCHANGED gateVars

\* where terminate_process returns to: the except clause of execute, line
\* 181, or the stopper
AfterTerminate(t) ==
    /\ pc' = [pc EXCEPT ![t] = IF t \in Workers THEN "finally" ELSE "idle"]
    /\ loc' = [loc EXCEPT ![t].ret =
                 IF t \in Workers THEN [kind |-> "timeout", code |-> "-1"]
                 ELSE @]

\* terminate_process, lines 189-191: with self.lock:
\* if self.current_process: self.current_process.kill().  With no child
\* tracked the lock is released and the call returns.
TermKill(t) ==
    /\ pc[t] = "t_kill"
    /\ lock = None
    /\ IF current_process = NoPid
       THEN /\ AfterTerminate(t)
            /\ UNCHANGED <<lock, proc, sent>>
       ELSE /\ SendSignal(current_process, "SIGKILL", t, FALSE)
            /\ lock' = t
            /\ pc' = [pc EXCEPT ![t] = "t_comm"]
            /\ loc' = loc
    /\ UNCHANGED <<current_process, cwd, umask, tmpdirs, ctx, result, calls>>
    /\ UNCHANGED gateVars

\* lines 192-194: self.current_process.communicate(timeout=5), in the lock
TermCommunicate(t) ==
    /\ pc[t] = "t_comm"
    /\ LET p == current_process IN
       \/ /\ proc[p].st \in {"zombie", "reaped"}
          /\ proc' = [proc EXCEPT ![p].st = "reaped"]
          /\ lock' = None
          /\ AfterTerminate(t)
       \/ /\ proc[p].st \in {"running", "zombie"}
          /\ pc' = [pc EXCEPT ![t] = "t_term"]
          /\ UNCHANGED <<proc, lock, loc>>
    /\ UNCHANGED <<current_process, sent, cwd, umask, tmpdirs, ctx, result,
                   calls>>
    /\ UNCHANGED gateVars

\* line 195: self.current_process.terminate(), then the lock is released
TermTerminate(t) ==
    /\ pc[t] = "t_term"
    /\ \E survives \in BOOLEAN :
          SendSignal(current_process, "SIGTERM", t, survives)
    /\ lock' = None
    /\ AfterTerminate(t)
    /\ UNCHANGED <<current_process, cwd, umask, tmpdirs, ctx, result, calls>>
    /\ UNCHANGED gateVars

\* finally, lines 185-186: with self.lock: self.current_process = None;
\* then execute returns the value of the return statement it left through
Finally(t) ==
    /\ pc[t] = "finally"
    /\ lock = None
    /\ current_process' = NoPid
    /\ result' = [result EXCEPT ![t] = loc[t].ret]
    /\ loc' = [loc EXCEPT ![t] = NoLoc]
    /\ ctx' = [ctx EXCEPT ![t] = NoCtx]
    /\ pc' = [pc EXCEPT ![t] = "idle"]
    /\ UNCHANGED <<lock, proc, sent, cwd, umask, tmpdirs, calls>>
    /\ UNCHANGED gateVars

\* the child exits on its own, with some exit status
ChildExit(p) ==
    /\ proc[p].st = "running"
    /\ proc' = [proc EXCEPT ![p] = [st |-> "zombie", how |-> "exited"]]
    /\ UNCHANGED <<pc, lock, current_process, sent, cwd, umask, tmpdirs, ctx,
                   loc, result, calls>>
    /\ UNCHANGED gateVars

\* the steps of a call that is under way
Step(t) ==
    \/ CtxInit(t) \/ CtxUmaskRestore(t) \/ CtxEnter(t)
    \/ Popen(t) \/ CommunicateRead(t) \/ Wait(t) \/ ReturnCode(t)
    \/ CtxExit(t)
    \/ TermKill(t) \/ TermCommunicate(t) \/ TermTerminate(t)
    \/ Finally(t)

GateIdle == [entry |-> "none", out |-> "none"]

BoxInit ==
    /\ pc = [t \in Threads |-> "idle"]
    /\ lock = None
    /\ current_process = NoPid
    /\ proc = [p \in Pids |-> NoProc]
    /\ sent = [p \in Pids |-> <<>>]
    /\ cwd = OrigCwd
    /\ umask = OrigUmask
    /\ tmpdirs = {}
    /\ ctx = [t \in Threads |-> NoCtx]
    /\ loc = [t \in Threads |-> NoLoc]
    /\ result = [t \in Threads |-> NoResult]
    /\ calls = [t \in Threads |-> 0]

Init ==
    /\ BoxInit
    /\ cmd = <<>>
    /\ allowed = {}
    /\ model_id = "moonshot"
    /\ gate = GateIdle

\* the engine called from any of the workers
Next ==
    \/ \E t \in Workers : Call(t)
    \/ \E t \in Stoppers : Stop(t)
    \/ \E t \in Threads : Step(t)
    \/ \E p \in Pids : ChildExit(p)

Spec == Init /\ [][Next]_vars

\* the engine as ModernUI drives it: _on_execute submits execute to a
\* ThreadPoolExecutor(max_workers=1) (main.py line 374), stop_process runs
\* on the UI thread
NextUI ==
    \/ Call("w1")
    \/ \E t \in Stoppers : Stop(t)
    \/ \E t \in Threads : Step(t)
    \/ \E p \in Pids : ChildExit(p)

SpecUI == Init /\ [][NextUI]_vars

\* every call that is under way takes its next step; whether a call is
\* made and whether a child exits is up to the environment
SpecLive == SpecUI /\ \A t \in Threads : WF_vars(Step(t))

(***************************************************************************)
(* The gate on its own: one command text, handed to each entry point.      *)
(***************************************************************************)
\* commands are made of at most MaxWords of these pieces
MaxWords == 3

Words ==
    { <<"l","s">>, <<"c","a","t"," ">>, <<"i","d">>, <<" ">>,
      <<";">>, <<"|">>, <<"&">>,
      <<".",".","/">>, <<"/",".","/">>, <<"$","(">>, <<"$","{">>,
      <<"'">>, <<"p","k","e","x","e","c"," ","x">> }

RECURSIVE CommandsOf(_)
CommandsOf(n) ==
    IF n = 0 THEN {<<>>}
    ELSE LET shorter == CommandsOf(n - 1)
         IN  shorter \cup {c \o w : c \in shorter, w \in Words}

Commands == CommandsOf(MaxWords)

\* the allow-lists a CommandValidator is built with: the default of
\* __init__ (none given) and the configured ALLOWED_COMMANDS
AllowLists == {{}, ALLOWED_COMMANDS}

GateInit ==
    /\ BoxInit
    /\ cmd \in Commands
    /\ allowed \in AllowLists
    /\ model_id \in DOMAIN MODEL_CONFIGS
    /\ gate = GateIdle

\* execute(cmd) of the engine, up to the sandbox
GateExecute ==
    /\ gate = GateIdle
    /\ \E answer \in BOOLEAN :
          gate' = [entry |-> "execute", out |-> ExecuteGate(cmd, answer)]
    /\ UNCHANGED <<cmd, allowed, model_id>>
    /\ UNCHANGED boxVars

\* CommandValidator(allowed).is_safe(cmd)
GateIsSafe ==
    /\ gate = GateIdle
    /\ gate' = [entry |-> "is_safe",
                out |-> IF IsSafe(cmd, allowed) THEN "True" ELSE "False"]
    /\ UNCHANGED <<cmd, allowed, model_id>>
    /\ UNCHANGED boxVars

\* CommandEngine(model_id).async_execute, cmd being the generated text
GateAsyncExecute ==
    /\ gate = GateIdle
    /\ gate' = [entry |-> "async_execute",
                out |-> AsyncExecute(cmd, allowed, MODEL_CONFIGS[model_id])]
    /\ UNCHANGED <<cmd, allowed, model_id>>
    /\ UNCHANGED boxVars

NextGate == GateExecute \/ GateIsSafe \/ GateAsyncExecute

SpecGate == GateInit /\ [][NextGate]_vars

(***************************************************************************)
(* cmd_pilot/security.py: CommandValidator.assess_risk, the score          *)
(***************************************************************************)
\* danger_ops, lines 76-79
danger_ops ==
    << [op |-> <<"r","m">>, score |-> 30],
       [op |-> <<"d","e","l">>, score |-> 30],
       [op |-> <<"k","i","l","l">>, score |-> 25],
       [op |-> <<"c","h","m","o","d">>, score |-> 20],
       [op |-> <<"m","v">>, score |-> 15],
       [op |-> <<">">>, score |-> 10] >>

\* network_ops, lines 81-84
network_ops ==
    << [op |-> <<"w","g","e","t">>, score |-> 40],
       [op |-> <<"c","u","r","l">>, score |-> 40],
       [op |-> <<"n","c">>, score |-> 50],
       [op |-> <<"s","s","h">>, score |-> 30],
       [op |-> <<"s","c","p">>, score |-> 30],
       [op |-> <<"t","e","l","n","e","t">>, score |-> 50] >>

\* the loop left at the first op found: only that op is scored
RECURSIVE OpsScoreFirst(_, _, _)
OpsScoreFirst(ops, command, i) ==
    IF i > Len(ops) THEN 0
    ELSE IF Contains(command, ops[i].op) THEN ops[i].score
    ELSE OpsScoreFirst(ops, command, i + 1)

\* for op, score in ops.items(): if op in command: risk['score'] += score
RECURSIVE OpsScore(_, _, _)
OpsScore(ops, command, i) ==
    IF i > Len(ops) THEN 0
    ELSE (IF Contains(command, ops[i].op) THEN ops[i].score ELSE 0)
         + OpsScore(ops, command, i + 1)

\* the thresholds taken as strict: a score on a threshold stays below it
ScoreLevelStrict(score) ==
    IF score > 50 THEN "critical"
    ELSE IF score > 30 THEN "high"
    ELSE IF score > 15 THEN "medium"
    ELSE "low"

\* lines 96-102: the level of a score
ScoreLevel(score) ==
    IF score >= 50 THEN "critical"
    ELSE IF score >= 30 THEN "high"
    ELSE IF score >= 15 THEN "medium"
    ELSE "low"

\* CommandValidator.assess_risk(command) of security.py: the exception it
\* raises (shlex.split at line 71), or the score and the level
AssessRisk(command) ==
    LET sp     == ShlexSplit(command)
        parts  == Len(sp.toks)
        length == IF Len(command) > 100 THEN 20 ELSE 0
        complexity == IF parts > 3 THEN 10 * (parts - 3) ELSE 0
        score  == length + complexity
                  + OpsScore(network_ops, command, 1)
                  + OpsScore(danger_ops, command, 1)
    IN  IF ~sp.ok
        THEN [raised |-> "ValueError", score |-> 0, level |-> "low"]
        ELSE [raised |-> None, score |-> score, level |-> ScoreLevel(score)]

(***************************************************************************)
(* The risk assessment on its own.                                         *)
(***************************************************************************)
\* commands are made of at most MaxRiskWords of these pieces
MaxRiskWords == 2

\* an argument that takes the command over 100 characters
LongArg == [i \in 1..101 |-> "a"]

RiskWords ==
    { <<"r","m"," ">>, <<"m","v"," ">>, <<">"," ">>, <<"k","i","l","l"," ">>,
      <<"n","c"," ">>, <<"s","u","d","o"," ","x"," ">>,
      <<"-","r","f"," ","x"," ","y"," ","z">>, <<"'">>, LongArg }

RECURSIVE RiskCommandsOf(_)
RiskCommandsOf(n) ==
    IF n = 0 THEN {<<>>}
    ELSE LET shorter == RiskCommandsOf(n - 1)
         IN  shorter \cup {c \o w : c \in shorter, w \in RiskWords}

RiskCommands == RiskCommandsOf(MaxRiskWords)

RiskInit ==
    /\ BoxInit
    /\ cmd \in RiskCommands
    /\ allowed = ALLOWED_COMMANDS
    /\ model_id = "moonshot"
    /\ gate = GateIdle

\* CommandValidator().assess_risk(cmd)
RiskAssess ==
    /\ gate.entry = "none"
    /\ gate' = [entry |-> "assess_risk", out |-> AssessRisk(cmd)]
    /\ UNCHANGED <<cmd, allowed, model_id>>
    /\ UNCHANGED boxVars

SpecAssess == RiskInit /\ [][RiskAssess]_vars

\* tokens the classifiers recognise: ops of danger_ops and network_ops,
\* and texts that match a pattern of PRIVILEGE_PATTERNS
DangerTokens ==
    { <<"r","m">>, <<"k","i","l","l">>, <<">">>,
      <<"s","u","d","o"," ","x">>, <<"r","m"," ","-","r","f">>,
      <<"c","u","r","l"," ","h","t","t","p",":","/","/","a">> }

\* the highest level of utils/security.py's assess_risk(command)
UtilsLevel(command) == GetHighestRiskLevel(UtilsAssessRisk(command))

\* assess_risk of both validators, applied to cmd and to cmd with one more
\* token in front of it or behind it
RiskAddPattern ==
    /\ gate.entry = "none"
    /\ \E w \in DangerTokens, front \in BOOLEAN :
          LET more == IF front THEN w \o <<" ">> \o cmd
                      ELSE cmd \o <<" ">> \o w
          IN  gate' = [entry |-> "add_pattern",
                       out |-> [added |-> w, front |-> front,
                                before |-> AssessRisk(cmd),
                                after |-> AssessRisk(more),
                                ubefore |-> UtilsLevel(cmd),
                                uafter |-> UtilsLevel(more)]]
    /\ UNCHANGED <<cmd, allowed, model_id>>
    /\ UNCHANGED boxVars

SpecMono == RiskInit /\ [][RiskAddPattern]_vars

\* s with the letters from position k on in upper case
UpperFrom(s, k) ==
    [i \in 1..Len(s) |-> IF i >= k THEN ToUpper(s[i]) ELSE s[i]]

\* the positions where a whitespace-separated word of s starts
WordStarts(s) ==
    {i \in 1..Len(s) : s[i] \notin Space /\ (i = 1 \/ s[i - 1] \in Space)}

\* the commands of RiskCommands, bare and as arguments of an allowed program
CaseInit ==
    /\ BoxInit
    /\ cmd \in RiskCommands
              \cup {<<"e","c","h","o"," ">> \o c : c \in RiskCommands}
    /\ allowed = ALLOWED_COMMANDS
    /\ model_id = "moonshot"
    /\ gate = GateIdle

\* is_safe and assess_risk, applied to cmd and to cmd with its words from
\* some word on in upper case (the allowed program itself is left alone)
RiskCaseVariant ==
    /\ gate.entry = "none"
    /\ \E k \in {j \in WordStarts(cmd) :
                      \/ j > 1
                      \/ ShlexSplit(cmd).toks = <<>>
                      \/ ShlexSplit(cmd).toks[1] \notin allowed} :
          LET variant == UpperFrom(cmd, k)
          IN  gate' = [entry |-> "case_variant",
                       out |-> [variant |-> variant,
                                safe |-> IsSafe(cmd, allowed),
                                vsafe |-> IsSafe(variant, allowed),
                                risk |-> AssessRisk(cmd),
                                vrisk |-> AssessRisk(variant),
                                urisk |-> UtilsLevel(cmd),
                                vurisk |-> UtilsLevel(variant)]]
    /\ UNCHANGED <<cmd, allowed, model_id>>
    /\ UNCHANGED boxVars

SpecCase == CaseInit /\ [][RiskCaseVariant]_vars

(***************************************************************************)
(* _sanitize_output of main.py and of cmd_pilot/command_engine.py          *)
(***************************************************************************)
\* the fence marker, three grave accents
Fence == <<Backtick, Backtick, Backtick>>

\* (?:bash|shell|powershell|cmd)? in main.py line 131
MAIN_FENCE_TAGS ==
    { <<"b","a","s","h">>, <<"s","h","e","l","l">>,
      <<"p","o","w","e","r","s","h","e","l","l">>, <<"c","m","d">> }

\* (?:bash|shell)? in command_engine.py line 96
ENGINE_FENCE_TAGS == { <<"b","a","s","h">>, <<"s","h","e","l","l">> }

\* the first position from i on where a fence starts; Len(s) + 1 if none
NextFence(s, i) ==
    LET js == {j \in i..(Len(s) - 2) : SubSeq(s, j, j + 2) = Fence}
    IN  IF js = {} THEN Len(s) + 1
        ELSE CHOOSE j \in js : \A k \in js : j <= k

\* re.findall(fence tag? \n (.*?) fence, s, re.DOTALL) from position i on:
\* the captured contents, in order.  A match is a fence, one of the tags or
\* none, a newline, and the text up to the next fence; the search goes on
\* behind a match, and one position further where there is none.
RECURSIVE CodeBlocks(_, _, _)
CodeBlocks(s, i, tags) ==
    LET j == NextFence(s, i) IN
    IF j > Len(s) THEN <<>>
    ELSE
        LET nls == {j + 3 + Len(t) : t \in
                      {u \in tags \cup {<<>>} :
                          /\ j + 3 + Len(u) <= Len(s)
                          /\ SubSeq(s, j + 3, j + 2 + Len(u)) = u
                          /\ s[j + 3 + Len(u)] = Newline}}
        IN  IF nls = {} THEN CodeBlocks(s, j + 1, tags)
            ELSE LET n == CHOOSE x \in nls : TRUE
                     k == NextFence(s, n + 1)
                 IN  IF k > Len(s) THEN CodeBlocks(s, j + 1, tags)
                     ELSE <<SubSeq(s, n + 1, k - 1)>>
                          \o CodeBlocks(s, k + 3, tags)

\* str.splitlines from position i on (the only line end is the newline)
RECURSIVE SplitLinesFrom(_, _)
SplitLinesFrom(s, i) ==
    IF i > Len(s) THEN <<>>
    ELSE LET j == FirstAt(s, i, {Newline}, TRUE)
         IN  <<SubSeq(s, i, j - 1)>> \o SplitLinesFrom(s, j + 1)

SplitLines(s) == SplitLinesFrom(s, 1)

\* '\n'.join(lines)
RECURSIVE JoinLines(_)
JoinLines(lines) ==
    IF lines = <<>> THEN <<>>
    ELSE IF Len(lines) = 1 THEN lines[1]
    ELSE lines[1] \o <<Newline>> \o JoinLines(Tail(lines))

\* [line.strip() for line in lines
\*      if line.strip() and not line.startswith('#')]
RECURSIVE CommandLines(_)
CommandLines(lines) ==
    IF lines = <<>> THEN <<>>
    ELSE (IF Strip(lines[1]) # <<>> /\ lines[1][1] # "#"
          THEN <<Strip(lines[1])>> ELSE <<>>)
         \o CommandLines(Tail(lines))

\* _sanitize_output(text) of main.py for a str: the last code block,
\* stripped, or else the last three lines that are not empty and do not
\* start with '#', each stripped
SanitizeOutput(text) ==
    LET code_blocks == CodeBlocks(text, 1, MAIN_FENCE_TAGS)
        commands    == CommandLines(SplitLines(text))
        first       == IF Len(commands) > 3 THEN Len(commands) - 2 ELSE 1
    IN  IF code_blocks # <<>> THEN Strip(code_blocks[Len(code_blocks)])
        ELSE JoinLines(SubSeq(commands, first, Len(commands)))

\* CommandEngine._sanitize_output(text): the last code block, stripped, or
\* else the last line, stripped
EngineSanitizeOutput(text) ==
    LET code_blocks == CodeBlocks(text, 1, ENGINE_FENCE_TAGS)
        lines       == SplitLines(text)
    IN  IF code_blocks # <<>> THEN Strip(code_blocks[Len(code_blocks)])
        ELSE IF text = <<>> THEN <<>>
        ELSE Strip(lines[Len(lines)])

\* the raw texts the sanitizers are given: up to MaxSanWords pieces
MaxSanWords == 5

SanWords ==
    { Fence, <<"c","m","d">>, <<Newline>>, <<"a">>, <<"a", Newline>>,
      <<"#">>, <<" ">>, <<"'">> }

RECURSIVE SanTextsOf(_)
SanTextsOf(n) ==
    IF n = 0 THEN {<<>>}
    ELSE LET shorter == SanTextsOf(n - 1)
         IN  shorter \cup {c \o w : c \in shorter, w \in SanWords}

SanTexts == SanTextsOf(MaxSanWords)

SanInit ==
    /\ BoxInit
    /\ cmd \in SanTexts
    /\ allowed = ALLOWED_COMMANDS
    /\ model_id = "moonshot"
    /\ gate = GateIdle

\* CommandValidator.sanitize_command of utils/security.py, applied to cmd
\* and to its own result
SanCommand ==
    /\ gate.entry = "none"
    /\ gate' = [entry |-> "sanitize_command",
                out   |-> [once  |-> UtilsSanitizeCommand(cmd),
                           twice |-> UtilsSanitizeCommand(
                                         UtilsSanitizeCommand(cmd))]]
    /\ UNCHANGED <<cmd, allowed, model_id>>
    /\ UNCHANGED boxVars

\* _sanitize_output of main.py, applied to cmd and to its own result
SanOutput ==
    /\ gate.entry = "none"
    /\ gate' = [entry |-> "sanitize_output",
                out   |-> [once  |-> SanitizeOutput(cmd),
                           twice |-> SanitizeOutput(SanitizeOutput(cmd))]]
    /\ UNCHANGED <<cmd, allowed, model_id>>
    /\ UNCHANGED boxVars

\* CommandEngine._sanitize_output, applied to cmd and to its own result
SanEngineOutput ==
    /\ gate.entry = "none"
    /\ gate' = [entry |-> "engine_sanitize_output",
                out   |-> [once  |-> EngineSanitizeOutput(cmd),
                           twice |-> EngineSanitizeOutput(
                                         EngineSanitizeOutput(cmd))]]
    /\ UNCHANGED <<cmd, allowed, model_id>>
    /\ UNCHANGED boxVars

NextSanitize == SanCommand \/ SanOutput \/ SanEngineOutput

SpecSanitize == SanInit /\ [][NextSanitize]_vars

(***************************************************************************)
(* What each entry point hands to its caller: a value, or an exception.    *)
(***************************************************************************)
\* ' '.join(tokens)
RECURSIVE JoinTokens(_)
JoinTokens(toks) ==
    IF toks = <<>> THEN <<>>
    ELSE IF Len(toks) = 1 THEN toks[1]
    ELSE toks[1] \o <<" ">> \o JoinTokens(Tail(toks))

\* sanitize_command(command) of cmd_pilot/security.py (the module's
\* function): the validator is CommandValidator(), whose allow-list is
\* empty; a command that is not safe has its risk assessed (which may
\* raise) and is refused with SecurityError
SanitizeCommand(command) ==
    LET c == Strip(command) IN
    IF ~IsSafe(c, {})
    THEN [raised |-> IF AssessRisk(c).raised # None
                     THEN AssessRisk(c).raised ELSE "SecurityError",
          value  |-> <<>>]
    ELSE [raised |-> None, value |-> JoinTokens(ShlexSplit(c).toks)]

\* CommandValidator().assess_risk(cmd) of cmd_pilot/security.py
TotalAssessRisk ==
    /\ gate.entry = "none"
    /\ gate' = [entry |-> "assess_risk",
                out   |-> [raised |-> AssessRisk(cmd).raised]]
    /\ UNCHANGED <<cmd, allowed, model_id>>
    /\ UNCHANGED boxVars

\* CommandValidator.sanitize_command(cmd) of cmd_pilot/utils/security.py
TotalUtilsSanitize ==
    /\ gate.entry = "none"
    /\ gate' = [entry |-> "utils_sanitize_command",
                out   |-> [raised |-> None,
                           value  |-> UtilsSanitizeCommand(cmd)]]
    /\ UNCHANGED <<cmd, allowed, model_id>>
    /\ UNCHANGED boxVars

\* sanitize_command(cmd) of cmd_pilot/security.py
TotalSanitize ==
    /\ gate.entry = "none"
    /\ gate' = [entry |-> "sanitize_command",
                out   |-> [raised |-> SanitizeCommand(cmd).raised]]
    /\ UNCHANGED <<cmd, allowed, model_id>>
    /\ UNCHANGED boxVars

\* CommandEngine(model_id).async_execute: the except clause logs the
\* exception and raises it again (lines 129-131)
TotalAsyncExecute ==
    /\ gate.entry = "none"
    /\ LET r == AsyncExecute(cmd, allowed, MODEL_CONFIGS[model_id]) IN
       gate' = [entry |-> "async_execute",
                out   |-> [raised |-> IF r = "executed" THEN None ELSE r]]
    /\ UNCHANGED <<cmd, allowed, model_id>>
    /\ UNCHANGED boxVars

\* execute(cmd) of main.py, up to the try statement: shlex.split(command)[0]
\* at line 151 is outside of it
TotalExecute ==
    /\ gate.entry = "none"
    /\ \E answer \in BOOLEAN :
          LET g == ExecuteGate(cmd, answer) IN
          gate' = [entry |-> "execute",
                   out   |-> [raised |-> IF g \in {"ValueError", "IndexError"}
                                         THEN g ELSE None]]
    /\ UNCHANGED <<cmd, allowed, model_id>>
    /\ UNCHANGED boxVars

NextTotal ==
    \/ TotalAssessRisk \/ TotalUtilsSanitize \/ TotalSanitize
    \/ TotalAsyncExecute \/ TotalExecute

SpecTotal == GateInit /\ [][NextTotal]_vars

(***************************************************************************)
(* What execute hands to the child and back to its caller.                 *)
(***************************************************************************)
\* lines 176-178: the streams of the child that are in the text execute
\* returns: stderr alone if it is not empty, stdout otherwise
ReturnedStreams(kind) ==
    IF kind = "stderr" THEN {"stderr"}
    ELSE IF kind = "stdout" THEN {"stdout"}
    ELSE {}

\* line 168, cwd=ctx.cwd: the working directory the child of thread t's
\* call is started in is the one CommandContext.__init__ recorded
PopenCwd(t) == ctx[t].cwd

\* the threads whose call has spawned its child and has not yet left the
\* with statements
Spawned == {t \in Workers : pc[t] \in {"communicate", "wait", "returncode"}}

\* the threads that hold a CommandContext: from its construction at line 160
\* done until __exit__ has run
InContext == {t \in Workers : pc[t] \in {"enter", "popen", "communicate",
                                         "wait", "returncode", "exit"}}

\* executable='/bin/bash' if os.name == 'posix' else None (line 166);
\* NoExecutable is None
BinBash == <<"/","b","i","n","/","b","a","s","h">>
BinSh   == <<"/","b","i","n","/","s","h">>
NoExecutable == <<>>
OsNames == {"posix", "nt"}

\* subprocess.Popen(args, shell=..., executable=...) with args a string, on
\* POSIX: a string is the one-element vector [args]; with shell the vector
\* is put behind /bin/sh -c; the file that is executed is executable if it
\* is given and argv[0] otherwise
PopenPosix(args, shell, executable) ==
    LET argv == IF shell THEN <<BinSh, <<"-","c">>, args>> ELSE <<args>>
    IN  [program |-> IF executable # NoExecutable THEN executable
                     ELSE IF shell THEN BinSh ELSE argv[1],
         argv    |-> argv]

\* lines 163-172: what the Popen call of execute starts for command; on
\* Windows no executable is given and the string is the command line of
\* CreateProcess, which takes the program from it
ExecuteSpawn(command, os_name) ==
    IF os_name = "posix"
    THEN PopenPosix(command, FALSE, BinBash)
    ELSE [program |-> NoExecutable, argv |-> <<command>>]

\* execute(cmd) as far as the spawn: what is started for a command that
\* reaches the sandbox
GateSpawn ==
    /\ gate.entry = "none"
    /\ \E answer \in BOOLEAN, os_name \in OsNames :
          LET g == ExecuteGate(cmd, answer) IN
          gate' = [entry |-> "spawn",
                   out   |-> [gate    |-> g,
                              os_name |-> os_name,
                              spawn   |-> IF g = "sandbox"
                                          THEN ExecuteSpawn(cmd, os_name)
                                          ELSE [program |-> <<>>,
                                                argv |-> <<>>]]]
    /\ UNCHANGED <<cmd, allowed, model_id>>
    /\ UNCHANGED boxVars

SpecSpawn == GateInit /\ [][GateSpawn]_vars

(***************************************************************************)
(* The whole decision for one command: sanitizer, classifiers, validators  *)
(* and the two entry points.                                               *)
(***************************************************************************)
LsThenRm     == <<"l","s"," ","-","l","a",";"," ","r","m"," ","-","r","f"," ","/">>
CurlDownload == <<"c","u","r","l"," ","h","t","t","p","s",":","/","/","e","x","a","m","p","l","e",".","c","o","m","/","x">>
GrepMapFile  == <<"g","r","e","p"," ","m","a","p"," ","f","i","l","e">>
CatAlarm     == <<"c","a","t"," ","a","l","a","r","m">>

\* the commands are made of up to MaxScenarioWords of these pieces
MaxScenarioWords == 3

ScenarioWords ==
    { <<"l","s"," ","-","l","a">>, <<";"," ">>, <<";">>, <<"r","m"," ","-","r","f"," ","/">>,
      <<"c","u","r","l"," ">>, <<"h","t","t","p","s",":","/","/","e","x","a","m","p","l","e",".","c","o","m","/","x">>,
      <<"g","r","e","p"," ","m","a","p"," ","f","i","l","e">>, <<"c","a","t"," ","a","l","a","r","m">> }

RECURSIVE ScenarioCommandsOf(_)
ScenarioCommandsOf(n) ==
    IF n = 0 THEN {<<>>}
    ELSE LET shorter == ScenarioCommandsOf(n - 1)
         IN  shorter \cup {c \o w : c \in shorter, w \in ScenarioWords}

ScenarioCommands ==
    ScenarioCommandsOf(MaxScenarioWords)
        \cup {LsThenRm, CurlDownload, GrepMapFile, CatAlarm}

ScenarioInit ==
    /\ BoxInit
    /\ cmd \in ScenarioCommands
    /\ allowed \in AllowLists
    /\ model_id = "moonshot"
    /\ gate = GateIdle

\* cmd taken through the sanitizer and the classifier of utils/security.py,
\* the validators, the scoring of security.py, and the entry points
\* async_execute and execute
ScenarioDecide ==
    /\ gate.entry = "none"
    /\ LET sanitized == UtilsSanitizeCommand(cmd) IN
       gate' = [entry |-> "decide",
                out   |->
                  [sanitized |-> sanitized,
                   findings  |-> UtilsAssessRisk(sanitized),
                   level     |-> GetHighestRiskLevel(
                                     UtilsAssessRisk(sanitized)),
                   usafe     |-> UtilsIsSafe(sanitized, allowed),
                   safe      |-> IsSafe(cmd, allowed),
                   risk      |-> AssessRisk(cmd),
                   decision  |-> AsyncExecute(cmd, allowed,
                                              MODEL_CONFIGS[model_id]),
                   execute   |-> ExecuteGate(cmd, TRUE)]]
    /\ UNCHANGED <<cmd, allowed, model_id>>
    /\ UNCHANGED boxVars

SpecScenario == ScenarioInit /\ [][ScenarioDecide]_vars

(***************************************************************************)
(* Benign commands: an allow-listed name with plain-word arguments.        *)
(***************************************************************************)
\* arguments of letters and digits, with no separator, path, substitution
\* or dangerous operation in them
PlainWords == { <<"a">>, <<"b","1">>, <<"f","i","l","e">>, <<"n","o","t","e","s">>, <<"q","u","e","r","y">> }

MaxBenignArgs == 2

RECURSIVE BenignCommandsOf(_)
BenignCommandsOf(n) ==
    IF n = 0 THEN ALLOWED_COMMANDS
    ELSE LET shorter == BenignCommandsOf(n - 1)
         IN  shorter \cup {c \o <<" ">> \o w : c \in shorter, w \in PlainWords}

BenignCommands == BenignCommandsOf(MaxBenignArgs)

BenignInit ==
    /\ BoxInit
    /\ cmd \in BenignCommands
    /\ allowed = ALLOWED_COMMANDS
    /\ model_id = "moonshot"
    /\ gate = GateIdle

\* CommandValidator(ALLOWED_COMMANDS).is_safe(cmd) of cmd_pilot/security.py
BenignIsSafe ==
    /\ gate.entry = "none"
    /\ gate' = [entry |-> "is_safe", out |-> [safe |-> IsSafe(cmd, allowed)]]
    /\ UNCHANGED <<cmd, allowed, model_id>>
    /\ UNCHANGED boxVars

\* sanitize_command(cmd) of cmd_pilot/security.py
BenignSanitize ==
    /\ gate.entry = "none"
    /\ gate' = [entry |-> "sanitize_command", out |-> SanitizeCommand(cmd)]
    /\ UNCHANGED <<cmd, allowed, model_id>>
    /\ UNCHANGED boxVars

NextBenign == BenignIsSafe \/ BenignSanitize

SpecBenign == BenignInit /\ [][NextBenign]_vars

(***************************************************************************)
(* One execute call of main.py with its gate taken step by step: the       *)
(* allow-list check, the confirmation prompt, then the sandbox.            *)
(***************************************************************************)
\* the commands of the sandbox model, and two with a critical finding whose
\* program is not allow-listed
ConfirmCommands ==
    ExecCommands \cup { <<"s","u","d","o"," ","x">>, <<"p","k","e","x","e","c"," ","x">> }

ConfirmInit ==
    /\ BoxInit
    /\ cmd \in ConfirmCommands
    /\ allowed = ALLOWED_COMMANDS
    /\ model_id = "moonshot"
    /\ gate = GateIdle

\* lines 147-153: the empty command and the command whose program is not
\* in ALLOWED_COMMANDS are turned away; shlex.split(command)[0] may raise
ConfirmAllowList ==
    /\ gate.entry = "none"
    /\ pc["w1"] = "idle"
    /\ LET sp == ShlexSplit(cmd)
           r  == IF cmd = <<>> THEN "empty"
                 ELSE IF ~sp.ok THEN "ValueError"
                 ELSE IF sp.toks = <<>> THEN "IndexError"
                 ELSE IF sp.toks[1] \notin ALLOWED_COMMANDS
                      THEN "unauthorized"
                 ELSE "none"
       IN  /\ gate' = [entry |-> "allow_list",
                       out   |-> [asked |-> FALSE, answer |-> FALSE,
                                  returned |-> r]]
           /\ result' = IF r = "none" THEN result
                        ELSE [result EXCEPT !["w1"] =
                                 [kind |-> r, code |-> "-1"]]
    /\ UNCHANGED <<cmd, allowed, model_id>>
    /\ UNCHANGED <<pc, lock, current_process, proc, sent, cwd, umask,
                   tmpdirs, ctx, loc, calls>>

\* lines 156-157 with confirm_risky_command, lines 139-144: the user is
\* asked if analyze_risk has a critical finding (answer: the user typed
\* 'y'); a declined command is turned away
ConfirmPrompt ==
    /\ gate.entry = "allow_list"
    /\ gate.out.returned = "none"
    /\ \E answer \in IF "critical" \in DOMAIN AnalyzeRisk(cmd)
                      THEN BOOLEAN ELSE {FALSE} :
          LET asked == "critical" \in DOMAIN AnalyzeRisk(cmd)
              go    == ConfirmRiskyCommand(cmd, answer)
          IN  /\ gate' = [entry |-> "confirmed",
                          out   |-> [asked |-> asked, answer |-> answer,
                                     returned |-> IF go THEN "none"
                                                  ELSE "user_cancel"]]
              /\ result' = IF go THEN result
                           ELSE [result EXCEPT !["w1"] =
                                    [kind |-> "user_cancel", code |-> "-1"]]
    /\ UNCHANGED <<cmd, allowed, model_id>>
    /\ UNCHANGED <<pc, lock, current_process, proc, sent, cwd, umask,
                   tmpdirs, ctx, loc, calls>>

\* lines 159-160: the try statement is entered and the CommandContext is
\* about to be made
ConfirmEnter ==
    /\ gate.entry = "confirmed"
    /\ gate.out.returned = "none"
    /\ gate' = [gate EXCEPT !.entry = "sandbox", !.out.returned = "sandbox"]
    /\ pc' = [pc EXCEPT !["w1"] = "ctx_init"]
    /\ result' = [result EXCEPT !["w1"] = NoResult]
    /\ calls' = [calls EXCEPT !["w1"] = @ + 1]
    /\ loc' = [loc EXCEPT !["w1"] = NoLoc]
    /\ ctx' = [ctx EXCEPT !["w1"] = NoCtx]
    /\ UNCHANGED <<cmd, allowed, model_id>>
    /\ UNCHANGED <<lock, current_process, proc, sent, cwd, umask, tmpdirs>>

NextConfirm ==
    \/ ConfirmAllowList \/ ConfirmPrompt \/ ConfirmEnter
    \/ \E t \in Stoppers : Stop(t)
    \/ \E t \in Threads : Step(t)
    \/ \E p \in Pids : ChildExit(p)

SpecConfirm == ConfirmInit /\ [][NextConfirm]_vars

(***************************************************************************)
(* The properties.                                                         *)
(***************************************************************************)

C2_InjectionResistance ==
    (/\ gate.entry # "none"
     /\ \E i, j \in DOMAIN cmd :
           /\ i < j
           /\ cmd[i] \in {";", "|", "&"}
           /\ cmd[j] \in {";", "|", "&"}
           /\ \A k \in (i + 1)..(j - 1) : cmd[k] \in Space)
    => gate.out \in {"empty", "ValueError", "IndexError", "unauthorized",
                     "user_cancel", "False", "SecurityError"}

\* C3: at every entry point a command containing ../ or /./ or $( or ${
\* is rejected and is never executed.
C3_StructuralRejection ==
    (/\ gate.entry # "none"
     /\ \/ Contains(cmd, <<".", ".", "/">>)
        \/ Contains(cmd, <<"/", ".", "/">>)
        \/ Contains(cmd, <<"$", "(">>)
        \/ Contains(cmd, <<"$", "{">>))
    => gate.out \in {"empty", "ValueError", "IndexError", "unauthorized",
                     "False", "SecurityError"}

\* C4: once an execute call has returned, the working directory and the
\* umask are what they were before it and no temporary directory made for
\* the call exists.
C4_SandboxCleanup ==
    \A t \in Workers :
        (pc[t] = "idle" /\ calls[t] > 0) =>
            /\ cwd = OrigCwd
            /\ umask = OrigUmask
            /\ \A d \in tmpdirs : d[1] # t

\* C5: every live child is the one the engine tracks, so at most one child
\* is live at a time and a live handle is never overwritten or cleared.
C5_SingleInFlight ==
    \A p \in Pids : proc[p].st = "running" => current_process = p

\* C6: at most one call is between the creation of its context and the
\* exit from it, and with every call returned the working directory is the
\* one from before the first call.
C6_SandboxSerialized ==
    /\ Cardinality({t \in Workers :
                       pc[t] \in {"ctx_umask_restore", "enter", "popen",
                                  "communicate", "wait", "returncode",
                                  "exit"}}) <= 1
    /\ (\A t \in Threads : pc[t] = "idle") => cwd = OrigCwd

\* C7: execute reads the process handle only while it holds the lock, and
\* the handle it works on is never cleared or replaced under it.
C7_HandleUnderLock ==
    \A t \in Workers :
        /\ pc[t] \in {"communicate", "returncode"} => lock = t
        /\ pc[t] \in {"wait", "returncode"} => current_process = loc[t].h

\* C8: on a timeout the child is force-killed only after a terminate
\* signal was sent to it, and it no longer runs when the call has returned
\* its timeout result.
C8_TimeoutSequence ==
    /\ \A p \in Pids : \A i \in DOMAIN sent[p] :
          (sent[p][i].sig = "SIGKILL" /\ sent[p][i].by \in Workers)
          => \E j \in 1..(i - 1) : sent[p][j].sig = "SIGTERM"
    /\ \A t \in Workers :
          (pc[t] = "idle" /\ result[t].kind = "timeout")
          => proc[MyPid(t)].st # "running"

C10_Cancellation ==
    \A t \in Workers :
        (/\ pc[t] = "idle"
         /\ calls[t] > 0
         /\ \E i \in DOMAIN sent[MyPid(t)] :
               sent[MyPid(t)][i].by \in Stoppers)
        => /\ result[t].kind = "cancelled"
           /\ \E i \in DOMAIN sent[MyPid(t)] :
                 sent[MyPid(t)][i].sig = "SIGTERM"

\* C11: in every execute call the child is live only inside the call's
\* context (spawned after it is entered, reaped before it is left, on the
\* timeout path too), and the handle slot is empty once the call is over.
C11_StrictNesting ==
    \A t \in Workers :
        calls[t] > 0 =>
            /\ proc[MyPid(t)].st \in {"running", "zombie"}
               => pc[t] \in {"communicate", "wait", "returncode", "exit"}
            /\ pc[t] = "idle" => current_process = NoPid

\* C12: a command that passes the empty, syntax, allow-list and structural
\* checks is rejected exactly when its risk level is above the configured
\* max_risk_level, so nothing above the ceiling is executed.
C12_RiskCeiling ==
    LET sanitized == UtilsSanitizeCommand(cmd)
        ceiling   == risk_order[DEFAULT_SETTINGS.max_risk_level]
    IN  /\ (gate.entry = "async_execute" /\ UtilsIsSafe(sanitized, allowed))
           => ((gate.out = "SecurityError") <=>
               (risk_order[GetHighestRiskLevel(UtilsAssessRisk(sanitized))]
                  > ceiling))
        /\ (/\ gate.entry = "execute"
            /\ gate.out \notin {"empty", "ValueError", "IndexError",
                                "unauthorized"})
           => ((gate.out # "sandbox") <=>
               (risk_order[GetHighestRiskLevel(AnalyzeRisk(cmd))] > ceiling))

\* C19: at every entry point an empty or whitespace-only command is
\* rejected as empty and is not passed on to the execution step.
C19_EmptyRejected ==
    (gate.entry # "none" /\ Strip(cmd) = <<>>)
    => gate.out \in {"empty", "False"}

\* C20: at every entry point a command with unbalanced quotes ends in a
\* rejection value: no exception leaves the gate and the command is not
\* executed.
C20_MalformedRejected ==
    (gate.entry # "none" /\ ~ShlexSplit(cmd).ok)
    => gate.out \in {"empty", "unauthorized", "user_cancel", "False",
                     "SecurityError"}

\* C13: the level of an assessment is critical iff score >= 50, high iff
\* 30 <= score < 50, medium iff 15 <= score < 30 and low iff score < 15,
\* and assessing the same command again gives the same score and level.
C13_LevelThresholds ==
    (gate.entry = "assess_risk" /\ gate.out.raised = None)
    => /\ (gate.out.level = "critical") <=> (gate.out.score >= 50)
       /\ (gate.out.level = "high")
            <=> (gate.out.score >= 30 /\ gate.out.score < 50)
       /\ (gate.out.level = "medium")
            <=> (gate.out.score >= 15 /\ gate.out.score < 30)
       /\ (gate.out.level = "low") <=> (gate.out.score < 15)
       /\ gate.out = AssessRisk(cmd)

\* C13, its case: an assessment has been made whose score lies exactly on
\* a threshold.
C13_Witness ==
    /\ gate.entry = "assess_risk"
    /\ gate.out.raised = None
    /\ gate.out.score \in {15, 30, 50}

C15_CaseInsensitive ==
    gate.entry = "case_variant" =>
        /\ gate.out.vsafe = gate.out.safe
        /\ gate.out.vrisk = gate.out.risk
        /\ gate.out.vurisk = gate.out.urisk

\* C16: each sanitizer is idempotent: applied to its own result it returns
\* that result again (the comment and whitespace sanitizer, and the two
\* output extractors).
C16_Idempotent ==
    gate.entry \in {"sanitize_command", "sanitize_output",
                    "engine_sanitize_output"} =>
        gate.out.twice = gate.out.once

\* C17: the sanitizer removes, on every line, the text from a '#' to the
\* end of the line, unless the '#' lies inside a quoted string.  So of a
\* text without quotes no '#' is left in the result (for the extractor of
\* main.py: of a text without a code block), and a text whose every '#'
\* lies inside a closed quoted string keeps all of its text.
C17_CommentsStripped ==
    LET quotes   == {i \in 1..Len(cmd) : cmd[i] = "'"}
        hashes   == {i \in 1..Len(cmd) : cmd[i] = "#"}
        InQuotes(i) == Cardinality({j \in quotes : j < i}) % 2 = 1
        HasHash(s)  == \E i \in 1..Len(s) : s[i] = "#"
    IN  /\ ( /\ gate.entry = "sanitize_command"
             /\ quotes = {} )
            => ~HasHash(gate.out.once)
        /\ ( /\ gate.entry = "sanitize_output"
             /\ quotes = {}
             /\ CodeBlocks(cmd, 1, MAIN_FENCE_TAGS) = <<>> )
            => ~HasHash(gate.out.once)
        /\ ( /\ gate.entry = "sanitize_command"
             /\ hashes # {}
             /\ Cardinality(quotes) % 2 = 0
             /\ \A i \in hashes : InQuotes(i) )
            => gate.out.once = JoinSplit(cmd)

\* C18: of a text with a code block (fenced with no tag or with shell,
\* bash, powershell or cmd) the extractor returns the content of the last
\* block; of any other text it returns the last line that is neither empty
\* nor a comment, one line alone, and nothing if there is no such line.
\* A comment is a line whose first character, or whose first character
\* after leading whitespace, is '#': either reading is accepted.
C18_Extraction ==
    gate.entry \in {"sanitize_output", "engine_sanitize_output"} =>
        LET blocks == CodeBlocks(cmd, 1, MAIN_FENCE_TAGS)
            lines  == CommandLines(SplitLines(cmd))
            strict == SelectSeq(lines, LAMBDA l : l[1] # "#")
            Last(ls) == IF ls = <<>> THEN <<>> ELSE ls[Len(ls)]
        IN  IF blocks # <<>>
            THEN gate.out.once = Strip(blocks[Len(blocks)])
            ELSE gate.out.once \in {Last(lines), Last(strict)}

\* C21: no entry point lets an exception out: the sanitizers and the
\* classifier return a value for every input, and execute and
\* async_execute hand every failure back as a result.
C21_NoRawException ==
    gate.entry # "none" => gate.out.raised = None

\* C22: when execute completes normally its result carries the child's
\* stdout together with the exit code, also when the child wrote to
\* stderr.
C22_StreamsReturned ==
    \A t \in Workers :
        (pc[t] = "idle" /\ result[t].kind \in {"stdout", "stderr"}) =>
            "stdout" \in ReturnedStreams(result[t].kind)

\* C23: the child runs inside the sandbox: the working directory given to
\* the spawned process is a temporary directory made on entry to the
\* context of that call.
C23_ChildInTempDir ==
    \A t \in Spawned : PopenCwd(t) \in MyDirs(t)

\* C24: while a call holds its context, and so at the moment it spawns the
\* child, the umask of the process is the owner-only mask 0o077, and the
\* umask saved on entry is the original one.
C24_StrictUmaskInContext ==
    \A t \in InContext :
        /\ umask = StrictUmask
        /\ ctx[t].umask = OrigUmask

\* C25: an admitted command is started as the vector of its tokens and
\* without a shell: the program executed is the first token, the arguments
\* are the tokens, and no shell interprets the command.
C25_ArgvNoShell ==
    (gate.entry = "spawn" /\ gate.out.gate = "sandbox"
                          /\ gate.out.os_name = "posix") =>
        /\ gate.out.spawn.program = ShlexSplit(cmd).toks[1]
        /\ gate.out.spawn.argv = ShlexSplit(cmd).toks
        /\ gate.out.spawn.program \notin {BinBash, BinSh}

C27_CurlMedium ==
    (/\ gate.entry = "decide"
     /\ cmd = CurlDownload
     /\ <<"c","u","r","l">> \notin allowed) =>
        /\ gate.out.execute = "unauthorized"
        /\ "medium" \in DOMAIN gate.out.findings
        /\ gate.out.level = "medium"
        /\ gate.out.risk.level = "medium"

\* C28: a command made of an allow-listed name and up to two plain-word
\* arguments passes is_safe, and sanitize_command returns its normalized
\* form and does not raise.
C28_BenignAdmitted ==
    /\ gate.entry = "is_safe" => gate.out.safe
    /\ gate.entry = "sanitize_command" =>
           /\ gate.out.raised = None
           /\ gate.out.value = JoinSplit(cmd)

\* C29: a command made only of letters, digits and spaces, none of whose
\* words is a dangerous or network operation, gets no chained-separator
\* finding and no operation weight in its score.
C29_FindingsPrecise ==
    LET toks  == ShlexSplit(cmd).toks
        plain == \A i \in 1..Len(cmd) :
                    cmd[i] \in Lower \cup Upper \cup Digit \cup {" "}
        ops   == {danger_ops[i].op : i \in DOMAIN danger_ops}
                 \cup {network_ops[i].op : i \in DOMAIN network_ops}
        words == {toks[k] : k \in DOMAIN toks}
    IN  (/\ gate.entry = "decide"
         /\ plain
         /\ words \cap ops = {}) =>
            /\ \/ "critical" \notin DOMAIN gate.out.findings
               \/ 5 \notin gate.out.findings["critical"]
            /\ gate.out.risk.score =
                   (IF Len(cmd) > 100 THEN 20 ELSE 0)
                   + (IF Len(toks) > 3 THEN 10 * (Len(toks) - 3) ELSE 0)

\* C30: in execute a command with a critical finding is spawned only after
\* the user has confirmed it; a declined command is answered with the
\* cancellation and code -1 and neither a context nor a process is made
\* for it; and the user is asked only about allow-listed commands.
C30_ConfirmationGate ==
    gate.entry # "none" =>
        /\ ( /\ "critical" \in DOMAIN AnalyzeRisk(cmd)
             /\ \/ pc["w1"] # "idle"
                \/ \E p \in Pids : proc[p].st # "none" )
            => (gate.out.asked /\ gate.out.answer)
        /\ ( /\ gate.entry = "confirmed"
             /\ gate.out.asked
             /\ ~gate.out.answer )
            => /\ gate.out.returned = "user_cancel"
               /\ result["w1"] = [kind |-> "user_cancel", code |-> "-1"]
               /\ pc["w1"] = "idle"
               /\ ctx["w1"] = NoCtx
               /\ tmpdirs = {}
               /\ \A p \in Pids : proc[p].st = "none"
        /\ gate.out.asked =>
               /\ ShlexSplit(cmd).ok
               /\ ShlexSplit(cmd).toks # <<>>
               /\ ShlexSplit(cmd).toks[1] \in ALLOWED_COMMANDS

\* C30, its case: a command with a critical finding was confirmed by the
\* user and its child has been spawned.
C30_Witness ==
    /\ gate.entry = "sandbox"
    /\ "critical" \in DOMAIN AnalyzeRisk(cmd)
    /\ gate.out.asked
    /\ gate.out.answer
    /\ \E p \in Pids : proc[p].st = "running"

====
